---- MODULE Spec2Model ----
(***************************************************************************)
(* Model of genericSimulatedAnneal (generic_simulated_anneal.hpp).         *)
(*                                                                         *)
(* A solution is opaque to the routine apart from cost() and perturb(); it *)
(* is modelled as a record [cost, tag], so that distinct solutions may     *)
(* have the same cost.  cost_t is any integral type, so costs range over   *)
(* a small interval of integers that contains negative values and zero.    *)
(* Doubles are modelled as exact fractions <<numerator, denominator>>; the  *)
(* random draw is x / RandMax (rand() / RAND_MAX).                         *)
(* The verbose flag only selects writes to stdout and is left out.         *)
(***************************************************************************)
EXTENDS Integers, FiniteSets, Sequences, TLC

\* ---- bounds of the model ------------------------------------------------
MaxTemps == 2      \* params.max_temps ranges over 0..MaxTemps
MaxIters == 2      \* params.iters_per_temp ranges over 0..MaxIters
MaxCost  == 2      \* costs range over -1..MaxCost
RandMax  == 1      \* rand() ranges over 0..RandMax (RAND_MAX of the model)

\* Two solutions of every cost, told apart by their tag.
Costs     == (0 - 1)..MaxCost
Solutions == [cost : Costs, tag : BOOLEAN]

\* params.alpha and params.cost_reduction_tol, as <<numerator, denominator>>:
\* tolerances 0, 1/2, 1 and 3.
Alphas == {<<1, 2>>}
Tols   == {<<0, 1>>, <<1, 2>>, <<1, 1>>, <<3, 1>>}

\* ---- the user's solution class -------------------------------------------
\* solution::cost(): a const method, the same value on every call.
cost(sol) == sol.cost

\* solution::perturb(): modifies the solution in place; the routine knows
\* nothing about the outcome, which may also be the same solution again.
perturb(sol) == Solutions

\* The values acceptance_f can return: a probability or NaN.
\* A probability is num / den: 0, 1/2 and 1.
Probs == {[called |-> TRUE, nan |-> FALSE, num |-> 0, den |-> 1],
          [called |-> TRUE, nan |-> FALSE, num |-> 1, den |-> 2],
          [called |-> TRUE, nan |-> FALSE, num |-> 1, den |-> 1],
          [called |-> TRUE, nan |-> TRUE, num |-> 0, den |-> 1]}

\* No call of acceptance_f in this step (the then-branch of line 149).
NoProb == [called |-> FALSE, nan |-> FALSE, num |-> 0, den |-> 1]

VARIABLES
  s0,               \* the argument s0
  max_temps,        \* params.max_temps
  iters_per_temp,   \* params.iters_per_temp
  alpha,            \* params.alpha, <<numerator, denominator>>
  tol,              \* params.cost_reduction_tol, <<numerator, denominator>>
  fast_math,        \* the build: is __FAST_MATH__ defined?
  fevals, cost_init, cost_old, s, s1, best, best_cost, temp,
  outer_iter, inner_iter,
  cost_new, accepted, acceptance_prob, x,   \* locals of the last inner step
  f_args,           \* the arguments of the last step's call of acceptance_f
  calls,            \* calls of acceptance_f and of rand() in the last step
  noop,             \* history: has every perturb() left its solution as it was?
  min_seen,         \* history: the least cost among s0 and the candidates so far
  pc,               \* "running", "Converged" (return of line 196),
                    \* "Exhausted" (return of line 219)
  res               \* the returned GenSimAnnealResults

params == <<s0, max_temps, iters_per_temp, alpha, tol, fast_math>>
vars == <<s0, max_temps, iters_per_temp, alpha, tol, fast_math,
          fevals, cost_init, cost_old, s, s1, best, best_cost, temp,
          outer_iter, inner_iter, cost_new, accepted, acceptance_prob, x,
          f_args, calls, noop, min_seen, pc, res>>

\* ---- the pieces of one inner step ----------------------------------------
\* fevals++ (line 145)
FevalsTwice(f) == f + 2
NextFevals(f) == f + 1

\* Lines 149-155: the stored best cost after a candidate of cost cn.
BestNeverUpdated(bc, co, cn) == bc
BestCostOnAccept(bc, co, cn) == IF cn < co THEN cn ELSE bc
NextBestCost(bc, co, cn) == IF cn < co /\ bc > cn THEN cn ELSE bc

\* Lines 149-155: the stored best solution after candidate cand.
NextBest(b, bc, co, cand) ==
  IF cost(cand) < co /\ bc > cost(cand) THEN cand ELSE b

\* Line 173: acceptance_prob > x, with x = double(rand()) / RAND_MAX.
ProbAtLeast(p, r) == p.num * RandMax >= r * p.den
ProbGreater(p, r) == p.num * RandMax > r * p.den

\* Line 159: the arguments of acceptance_f(cost_old, cost_new, temp).
AcceptArgsSwapped(co, cn, t) == [co |-> cn, cn |-> co, temp |-> t]
AcceptArgs(co, cn, t) == [co |-> co, cn |-> cn, temp |-> t]

\* No call of acceptance_f in this step.
NoArgs == [co |-> 0, cn |-> 0, temp |-> <<0, 1>>]

\* Lines 149-175: the calls of acceptance_f (line 159) and of rand() (line
\* 172) in one inner step; both sit in the else-branch.
CallsBeforeTest(improving) == [acceptance_f |-> 1, rand |-> 1]
CallsInStep(improving) ==
  IF improving THEN [acceptance_f |-> 0, rand |-> 0]
  ELSE [acceptance_f |-> 1, rand |-> 1]

\* Lines 178-204: the scratch solution s1 after the step; a rejected
\* candidate is overwritten by s (line 203).
ScratchKept(cur, cand, acc) == cand
NextScratch(cur, cand, acc) == IF acc THEN cand ELSE cur

\* Lines 159-174: the outcomes of the else-branch for the value p returned
\* by acceptance_f and the draw r.  A NaN compares false under IEEE 754.
\* With __FAST_MATH__ the isnan guard is compiled, but the build assumes
\* that no NaN occurs: the guard may be folded away and the comparison may
\* go either way.
AcceptOutcomes(p, r, fm) ==
  IF p.nan THEN (IF fm THEN BOOLEAN ELSE {FALSE})
  ELSE {ProbGreater(p, r)}

\* Line 188: (double(cost_new)) / cost_init < tol on fractions.  A zero
\* cost_init gives +inf, -inf or NaN (0/0).
RatioLessOrEqual(cn, ci, t) ==
  IF ci > 0 THEN cn * t[2] <= t[1] * ci
  ELSE IF ci < 0 THEN cn * t[2] >= t[1] * ci
  ELSE cn <= 0
RatioLess(cn, ci, t) ==
  IF ci > 0 THEN cn * t[2] < t[1] * ci
  ELSE IF ci < 0 THEN cn * t[2] > t[1] * ci
  ELSE cn < 0

\* Line 188: the outcomes of the test in the build; the comparison of the
\* NaN of 0/0 is false under IEEE 754 and unreliable under __FAST_MATH__.
RatioOutcomes(cn, ci, t, fm) ==
  IF ci = 0 /\ cn = 0 THEN (IF fm THEN BOOLEAN ELSE {FALSE})
  ELSE {RatioLess(cn, ci, t)}

\* Lines 194-195: the result of the early return.
ConvergedItersPlusOne(cur, b, f, oi) ==
  [best |-> cur, finalcost |-> cost(cur), function_evals |-> f,
   iterations |-> oi + 1]
ConvergedFromBest(cur, b, f, oi) ==
  [best |-> b, finalcost |-> cost(b), function_evals |-> f, iterations |-> oi]
ConvergedResult(cur, b, f, oi) ==
  [best |-> cur, finalcost |-> cost(cur), function_evals |-> f,
   iterations |-> oi]

\* Lines 216-218: the result after the loops.
ExhaustedReturnsCurrent(cur, b, f, mt) ==
  [best |-> cur, finalcost |-> cost(cur), function_evals |-> f,
   iterations |-> mt]
ExhaustedResult(cur, b, f, mt) ==
  [best |-> IF cost(cur) < cost(b) THEN cur ELSE b,
   finalcost |-> IF cost(cur) < cost(b) THEN cost(cur) ELSE cost(b),
   function_evals |-> f, iterations |-> mt]

\* Line 206: temp = temp * alpha
TempSetToAlpha(t, a) == a
NextTemp(t, a) == <<t[1] * a[1], t[2] * a[2]>>

\* Line 136: ++inner_iter
InnerIterStuck(i) == i
NextInnerIter(i) == i + 1

\* ---- the routine ---------------------------------------------------------
\* Lines 112-131: the state before the loops, for every argument.
Init ==
  /\ s0 \in {sol \in Solutions : ~sol.tag}
  /\ max_temps \in 0..MaxTemps
  /\ iters_per_temp \in 0..MaxIters
  /\ alpha \in Alphas
  /\ tol \in Tols
  /\ fast_math \in BOOLEAN
  /\ fevals = 0
  /\ cost_init = cost(s0)
  /\ cost_old = cost(s0)
  /\ s = s0
  /\ s1 = s0
  /\ best = s0
  /\ best_cost = cost(s0)
  /\ temp = <<1, 1>>
  /\ outer_iter = 0
  /\ inner_iter = 0
  /\ cost_new = cost(s0)
  /\ accepted = FALSE
  /\ acceptance_prob = NoProb
  /\ x = 0
  /\ f_args = NoArgs
  /\ calls = [acceptance_f |-> 0, rand |-> 0]
  /\ noop = TRUE
  /\ min_seen = cost(s0)
  /\ pc = "running"
  /\ res = [best |-> s0, finalcost |-> cost(s0), function_evals |-> 0,
            iterations |-> 0]

\* Lines 138-204 with the values cand (the perturbed s1), p (returned by
\* acceptance_f), r (returned by rand()), acc and conv (the outcomes of the
\* comparisons of lines 173 and 188).
Step(cand, p, r, acc, conv) ==
  LET cn == cost(cand)
      improving == cn < cost_old
      isAccepted == IF improving THEN TRUE ELSE acc
      converged == isAccepted /\ conv
  IN
  /\ cost_new' = cn
  /\ fevals' = NextFevals(fevals)
  /\ min_seen' = IF cn < min_seen THEN cn ELSE min_seen
  /\ best' = NextBest(best, best_cost, cost_old, cand)
  /\ best_cost' = NextBestCost(best_cost, cost_old, cn)
  /\ acceptance_prob' = IF improving THEN NoProb ELSE p
  /\ x' = IF improving THEN 0 ELSE r
  /\ f_args' = IF improving THEN NoArgs ELSE AcceptArgs(cost_old, cn, temp)
  /\ calls' = CallsInStep(improving)
  /\ noop' = (noop /\ cand = s1)
  /\ accepted' = isAccepted
  /\ s' = IF isAccepted THEN cand ELSE s
  /\ cost_old' = IF isAccepted THEN cn ELSE cost_old
  /\ s1' = NextScratch(s, cand, isAccepted)
  /\ IF converged
       THEN /\ res' = ConvergedResult(cand, best', fevals', outer_iter)
            /\ pc' = "Converged"
            /\ inner_iter' = inner_iter
       ELSE /\ res' = res
            /\ pc' = "running"
            /\ inner_iter' = NextInnerIter(inner_iter)
  /\ UNCHANGED <<params, cost_init, temp, outer_iter>>

\* One pass of the inner loop body (lines 136-205).  acceptance_f and rand()
\* are called in the else-branch of line 149 only.
InnerStep ==
  /\ pc = "running"
  /\ outer_iter < max_temps
  /\ inner_iter < iters_per_temp
  /\ \E cand \in perturb(s1) :
       \E conv \in RatioOutcomes(cost(cand), cost_init, tol, fast_math) :
         IF cost(cand) < cost_old
           THEN Step(cand, NoProb, 0, TRUE, conv)
           ELSE \E p \in Probs, r \in 0..RandMax :
                  \E acc \in AcceptOutcomes(p, r, fast_math) :
                    Step(cand, p, r, acc, conv)

\* The inner loop ends: temp = temp * alpha; ++outer_iter (lines 134, 206).
Cool ==
  /\ pc = "running"
  /\ outer_iter < max_temps
  /\ inner_iter >= iters_per_temp
  /\ temp' = NextTemp(temp, alpha)
  /\ outer_iter' = outer_iter + 1
  /\ inner_iter' = 0
  /\ UNCHANGED <<params, fevals, cost_init, cost_old, s, s1, best, best_cost,
                 cost_new, accepted, acceptance_prob, x, f_args, calls,
                 noop, min_seen, pc, res>>

\* The outer loop ends: the return of lines 216-219.
Exhaust ==
  /\ pc = "running"
  /\ outer_iter >= max_temps
  /\ res' = ExhaustedResult(s, best, fevals, max_temps)
  /\ pc' = "Exhausted"
  /\ UNCHANGED <<params, fevals, cost_init, cost_old, s, s1, best, best_cost,
                 temp, outer_iter, inner_iter, cost_new, accepted,
                 acceptance_prob, x, f_args, calls, noop, min_seen>>

Next == InnerStep \/ Cool \/ Exhaust

Spec == Init /\ [][Next]_vars

\* The runs from one initial solution, of cost 1: whether and when a run ends
\* depends on the budget and on the tolerance, not on where it starts.
InitOneStart == Init /\ cost(s0) = 1

\* The routine is one uninterrupted call: a step that can be taken is taken.
FairSpec == InitOneStart /\ [][Next]_vars /\ WF_vars(Next)

Terminated == pc \in {"Converged", "Exhausted"}

\* ---- claims --------------------------------------------------------------
\* The number of inner steps started so far, read off the loop counters: in
\* a terminal state the counters are those of the return statement.
StepsStarted ==
  IF pc = "Converged" THEN outer_iter * iters_per_temp + inner_iter + 1
  ELSE outer_iter * iters_per_temp + inner_iter

\* C1: fevals counts the inner steps started, one per step, and the Result
\* of either return carries that count in function_evals.
C1_FunctionEvalsCountsInnerSteps ==
  /\ fevals = StepsStarted
  /\ Terminated => res.function_evals = StepsStarted
  /\ pc = "Exhausted" => res.function_evals = max_temps * iters_per_temp

C1_Witness ==
  /\ pc = "Converged"
  /\ res.function_evals = 3

\* C2: no step of the run raises best_cost.
C2_BestCostNonIncreasing == [][best_cost' <= best_cost]_vars

C2_Witness ==
  /\ best_cost < cost_init
  /\ accepted
  /\ acceptance_prob.called
  /\ cost_old > best_cost

C4_ExhaustedTiesFavorCurrent ==
  pc = "Exhausted" =>
    /\ res.best = (IF cost(best) < cost(s) THEN best ELSE s)
    /\ res.finalcost = cost(res.best)

C6_ResultIsLeastCostSeen ==
  Terminated =>
    /\ res.finalcost = cost(res.best)
    /\ res.finalcost <= cost(s0)
    /\ res.finalcost <= min_seen

\* C7 as stated: with a zero initial cost and a non-zero tolerance the run is
\* refused before the loop, so that no inner step is started.
C7_ZeroInitialCostRejected ==
  (cost_init = 0 /\ tol[1] # 0) => fevals = 0

\* C8 as stated: with max_temps = 0 or iters_per_temp = 0 the run is refused
\* and no normal Result is returned.
C8_EmptyBudgetRejected ==
  (max_temps = 0 \/ iters_per_temp = 0) => ~Terminated

\* C9 as stated: a non-improving candidate for which acceptance_f returned 1
\* is accepted whatever rand() returned.
C9_ProbOneAlwaysAccepted ==
  (acceptance_prob.called /\ ~acceptance_prob.nan
     /\ acceptance_prob.num = acceptance_prob.den) =>
    /\ accepted
    /\ cost_old = cost_new
    /\ cost(s) = cost_new

\* C10: a non-improving candidate for which acceptance_f returned 0 is
\* rejected whatever rand() returned, and the step leaves the current and the
\* best solution alone; with max_temps = 1, iters_per_temp = 1, tolerance 0
\* and a candidate dearer than s0 the run returns s0 with function_evals = 1.
C10_ProbZeroAlwaysRejected ==
  [][ /\ (fevals' # fevals /\ acceptance_prob'.called
            /\ ~acceptance_prob'.nan /\ acceptance_prob'.num = 0) =>
           /\ ~accepted'
           /\ s' = s /\ s1' = s /\ cost_old' = cost_old
           /\ best' = best /\ best_cost' = best_cost
           /\ pc' = "running"
      /\ (pc' = "Exhausted" /\ max_temps = 1 /\ iters_per_temp = 1
            /\ tol[1] = 0 /\ cost_new > cost(s0)
            /\ acceptance_prob.called /\ ~acceptance_prob.nan
            /\ acceptance_prob.num = 0) =>
           /\ res'.best = s0
           /\ res'.finalcost = cost(s0)
           /\ res'.function_evals = 1
    ]_vars

C10_Witness ==
  /\ pc = "Exhausted"
  /\ max_temps = 1 /\ iters_per_temp = 1 /\ tol[1] = 0
  /\ cost_new > cost(s0)
  /\ acceptance_prob.called /\ ~acceptance_prob.nan /\ acceptance_prob.num = 0
  /\ x = 0
  /\ res.best = s0 /\ res.function_evals = 1
\* C11 as stated: a non-improving candidate for which acceptance_f returned
\* NaN is rejected in every build.
C11_NaNAlwaysRejected ==
  (acceptance_prob.called /\ acceptance_prob.nan) => ~accepted

\* b to the power n, for the comparison with temp.
RECURSIVE Pow(_, _)
Pow(b, n) == IF n = 0 THEN 1 ELSE b * Pow(b, n - 1)

AlphaPower(i) == <<Pow(alpha[1], i), Pow(alpha[2], i)>>

\* C13: temp is alpha^outer_iter throughout (1 in outer iteration 0), it is
\* the temperature handed to acceptance_f in every inner step of that outer
\* iteration, and the inner steps leave it alone.
C13_TemperatureIsAlphaPower ==
  [][ /\ temp = AlphaPower(outer_iter)
      /\ temp' = AlphaPower(outer_iter')
      /\ fevals' # fevals =>
           /\ temp' = temp
           /\ calls'.acceptance_f = 1 => f_args'.temp = AlphaPower(outer_iter)
    ]_vars

C13_Witness ==
  /\ outer_iter = 1
  /\ inner_iter = 2
  /\ calls.acceptance_f = 1
  /\ f_args.temp = <<1, 2>>
  /\ temp = <<1, 2>>

\* C14 as stated: while perturb() is a no-op the cost never changes, the run
\* returns early only if cost_reduction_tol >= 1, and the Exhausted return
\* finds best, the current solution and s0 all equal.
C14_NoOpPerturb ==
  noop =>
    /\ cost_old = cost_init /\ cost_new = cost_init
    /\ pc = "Converged" => tol[1] >= tol[2]
    /\ pc = "Exhausted" => (res.best = s0 /\ best = s0 /\ s = s0)

\* C15: a candidate cheaper than cost_old is accepted without a call of
\* acceptance_f or of rand(); any other candidate costs exactly one call of
\* each, acceptance_f being given (cost_old, cost_new, temp).
C15_AcceptanceCalledOnlyWhenNotImproving ==
  [][ fevals' # fevals =>
        IF cost_new' < cost_old
          THEN /\ accepted'
               /\ calls' = [acceptance_f |-> 0, rand |-> 0]
               /\ ~acceptance_prob'.called
          ELSE /\ calls' = [acceptance_f |-> 1, rand |-> 1]
               /\ acceptance_prob'.called
               /\ f_args'.co = cost_old
               /\ f_args'.cn = cost_new'
               /\ f_args'.temp = temp
    ]_vars

C15_Witness ==
  /\ fevals = 2
  /\ calls = [acceptance_f |-> 1, rand |-> 1]
  /\ f_args.co < f_args.cn
  /\ f_args.co < cost_init
  /\ f_args.temp = <<1, 1>>
  /\ accepted

\* C16: a rejected step leaves the current solution, cost_old, best and
\* best_cost alone and resets the scratch solution, so that every inner step
\* starts with s1 = s and perturbs the current solution.
C16_RejectedStepRestoresScratch ==
  [][ /\ pc = "running" => s1 = s
      /\ pc' = "running" => s1' = s'
      /\ (fevals' # fevals /\ ~accepted') =>
           /\ s' = s /\ cost_old' = cost_old
           /\ best' = best /\ best_cost' = best_cost
           /\ s1' = s
    ]_vars

C16_Witness ==
  /\ pc = "running"
  /\ fevals = 2
  /\ ~accepted
  /\ cost_new > cost_old
  /\ s # s0
  /\ s1 = s

\* C17: iterations is max_temps after the Exhausted return and the index
\* outer_iter of the converging stage, below max_temps, after the early one.
C17_IterationsField ==
  /\ pc = "Exhausted" => res.iterations = max_temps
  /\ pc = "Converged" =>
       (res.iterations = outer_iter /\ res.iterations < max_temps)

C17_Witness ==
  /\ pc = "Converged"
  /\ res.iterations = 1
  /\ max_temps = 2
  /\ res.function_evals = 4
\* C18: every run ends in one of the two returns, after at most
\* max_temps * iters_per_temp inner steps and after exactly that many when it
\* ends Exhausted.
C18_RunTerminatesWithinBudget ==
  /\ [](fevals <= max_temps * iters_per_temp)
  /\ [](pc = "Exhausted" => fevals = max_temps * iters_per_temp)
  /\ <>[]Terminated

C18_Witness ==
  /\ pc = "Exhausted"
  /\ max_temps = MaxTemps /\ iters_per_temp = MaxIters
  /\ fevals = MaxTemps * MaxIters

C20_BestCostIsLeastCostSeen ==
  /\ best_cost = min_seen
  /\ cost(best) = best_cost

C20_Witness ==
  /\ fevals = 3
  /\ min_seen < cost_init
  /\ best_cost = min_seen
  /\ ~accepted
  /\ cost_new > cost_old
  /\ cost_old > best_cost
====
